---- MODULE Spec2Model ----
(***************************************************************************)
(* The plugin lifecycle supervisor of cmd/device-plugin/nvidia/main.go:    *)
(* start(), startPlugins(), stopPlugins() and the exit status of main().   *)
(* Every call of a plugin's Start or Stop is one step, so that the order   *)
(* of the calls inside one pass is visible.                                *)
(***************************************************************************)
EXTENDS Integers, Sequences, FiniteSets, TLC

\* ------------------------------------------------------------------ bounds
\* number of passes through the restart label that are explored
MaxPasses == 3
\* number of resource families, hence of plugins one pass can build
MaxPlugins == 2
\* number of entries of sharing.timeSlicing.resources
MaxResources == 2

\* ---------------------------------------------------------- input domains
Names == 1..MaxPlugins
\* len(p.Devices()): the code only tells zero from non-zero
DeviceCounts == {0, 1}

Signals == {"SIGHUP", "SIGINT", "SIGTERM", "SIGQUIT"}
FsNames == {"kubelet.sock", "other.sock"}
KubeletSocket == "kubelet.sock"
FsOps == SUBSET {"Create", "Write", "Remove"}

\* ------------------------------------------------- sharing configuration
\* A resource name is a sequence of parts, so that a suffix can be added;
\* the empty rename is the empty sequence.
ResourceNames == {<<"nvidia.com/gpu">>, <<"nvidia.com/mig-1g.5gb">>}
NoRename == <<>>
\* r.Name.DefaultSharedRename()
DefaultSharedRename(n) == n \o <<".shared">>
Renames == {NoRename, <<"custom">>} \cup {DefaultSharedRename(n) : n \in ResourceNames}

\* Devices of one entry as the configuration file gives it: "all", a count or a list
AllDevices == [all |-> TRUE, count |-> 0, list |-> <<>>]
DeviceSelections ==
  {AllDevices, [all |-> FALSE, count |-> 2, list |-> <<>>], [all |-> FALSE, count |-> 0, list |-> <<"GPU-0">>]}

ResourceEntries == [name : ResourceNames, rename : Renames, devices : DeviceSelections]

\* config.Resources and config.Sharing.TimeSlicing; the warn fields record
\* the messages the last disableResourceRenamingInConfig logged
SharingOf(g, m, rbd, rs) ==
  [gpus |-> g, migs |-> m, renameByDefault |-> rbd, resources |-> rs,
   warnResources |-> FALSE, warnRename |-> FALSE, warnDevices |-> FALSE]

Sharings ==
  { SharingOf(g, m, rbd, rs) :
      g \in 0..1, m \in 0..1, rbd \in BOOLEAN,
      rs \in UNION { [1..n -> ResourceEntries] : n \in 0..MaxResources } }

EmptySharing == SharingOf(0, 0, FALSE, <<>>)

\* the sharing configuration the supervisor is run with: one that the
\* normalizer has to correct in every field
SupervisorSharings ==
  { SharingOf(1, 0, TRUE, << [name |-> <<"nvidia.com/gpu">>, rename |-> <<"custom">>,
                              devices |-> [all |-> FALSE, count |-> 2, list |-> <<>>]] >>) }

\* mutant: Devices.All is set but Count and List are left as they were
NormEntry_KeepCount(rbd, r) ==
  [name |-> r.name,
   rename |-> IF ~rbd /\ r.rename # NoRename THEN NoRename
              ELSE IF rbd /\ r.rename # DefaultSharedRename(r.name) THEN DefaultSharedRename(r.name)
                   ELSE r.rename,
   devices |-> IF ~r.devices.all THEN [r.devices EXCEPT !.all = TRUE] ELSE r.devices]

\* mutant: the default rename is derived from the rename instead of the name
NormEntry_RenameOfRename(rbd, r) ==
  [name |-> r.name,
   rename |-> IF ~rbd /\ r.rename # NoRename THEN NoRename
              ELSE IF rbd /\ r.rename # DefaultSharedRename(r.name) THEN DefaultSharedRename(r.rename)
                   ELSE r.rename,
   devices |-> IF ~r.devices.all THEN AllDevices ELSE r.devices]

\* the body of the loop of disableResourceRenamingInConfig for one entry r
NormEntry(rbd, r) ==
  [name |-> r.name,
   rename |-> IF ~rbd /\ r.rename # NoRename THEN NoRename
              ELSE IF rbd /\ r.rename # DefaultSharedRename(r.name) THEN DefaultSharedRename(r.name)
                   ELSE r.rename,
   devices |-> IF ~r.devices.all THEN AllDevices ELSE r.devices]

SetsNonDefaultRename(rbd, r) ==
  (~rbd /\ r.rename # NoRename) \/ (rbd /\ r.rename # DefaultSharedRename(r.name))

disableResourceRenamingInConfig(c) ==
  [gpus |-> 0,
   migs |-> 0,
   renameByDefault |-> c.renameByDefault,
   resources |-> [k \in DOMAIN c.resources |-> NormEntry(c.renameByDefault, c.resources[k])],
   warnResources |-> (c.gpus > 0 \/ c.migs > 0),
   warnRename |-> \E k \in DOMAIN c.resources : SetsNonDefaultRename(c.renameByDefault, c.resources[k]),
   warnDevices |-> \E k \in DOMAIN c.resources : ~c.resources[k].devices.all]

NoFs == [name |-> "none", op |-> {}]

\* the configurations loadConfig can be given
IDStrategies == {"uuid", "index", "bogus"}
ListStrategies == {"envvar", "volume-mounts", "cdi-annotations", "bogus"}
DeviceIDStrategyUUID == "uuid"
DeviceIDStrategyIndex == "index"
NoConfig == [newConfigOK |-> FALSE, listStrategy |-> "none", idStrategy |-> "none", sharing |-> EmptySharing]
RawConfigs ==
  [newConfigOK : BOOLEAN, listStrategy : ListStrategies, idStrategy : IDStrategies, sharing : SupervisorSharings]

VARIABLES
  pc,              \* position of start(): see the actions
  restarting,      \* var restarting bool
  restartTimeout,  \* var restartTimeout <-chan time.Time: 0 is the nil channel, else the pass that armed it
  timerSpent,      \* the value of the current restartTimeout channel has been received
  plugins,         \* var plugins []plugin.Interface of start()
  config,          \* config of startPlugins(): what loadConfig was given, NoConfig outside startPlugins
  built,           \* plugins of startPlugins(), the slice being started
  i,               \* index of the running range loop (startPlugins or stopPlugins)
  started,         \* started of startPlugins()
  errs,            \* errs of stopPlugins(): TRUE for a non-nil error
  ret,             \* what start() returned: "running" while it has not
  pass,            \* history: number of times the restart label was reached
  live,            \* history: handles whose Start returned nil and that no Stop returning nil has followed
  unstopped,       \* history: handles built on which Stop was never called
  lastEvent,       \* history: what the select statement received last
  passStarts,      \* history: Start calls made in the current pass
  passTimers,      \* history: retry timers armed in the current pass
  degraded,        \* history: restartPlugins of the last finished pass
  atSignal,        \* history: running and owned handles when the terminal signal arrived
  timers,          \* history: the time.After timers whose value was not received, by arming pass
  firedTimer,      \* history: the timer whose value the select statement just received, 0 when it received something else
  lastFs           \* history: the watcher event the select statement just received

vars == <<pc, restarting, restartTimeout, timerSpent, plugins, config, built, i, started,
          errs, ret, pass, live, unstopped, lastEvent, passStarts, passTimers, degraded, atSignal,
          timers, firedTimer, lastFs>>

progVars == <<restarting, restartTimeout, timerSpent, plugins, config, built, i, started, errs, ret>>
histVars == <<pass, live, unstopped, lastEvent, passStarts, passTimers, degraded, atSignal,
              timers, firedTimer, lastFs>>

\* ------------------------------------------------------------------ handles
\* One plugin.Interface value: gen is the pass that built it, status the
\* outcome of its Start, starts/stops the calls made on it.
Handle(g, n, d) ==
  [gen |-> g, name |-> n, devices |-> d, starts |-> 0, stops |-> 0, status |-> "built", stopErr |-> FALSE]

Id(h) == <<h.gen, h.name>>

\* What GetPlugins can return: one plugin per resource family, in
\* configuration order.
PluginSets ==
  { s \in UNION { [1..n -> Names \X DeviceCounts] : n \in 0..MaxPlugins } :
      \A j \in DOMAIN s : \A k \in DOMAIN s : j < k => s[j][1] < s[k][1] }

NewPlugins(g, s) == [k \in DOMAIN s |-> Handle(g, s[k][1], s[k][2])]

\* mutant: only the error of the last Stop call is reported
NewAggregate_LastOnly(es) == es # <<>> /\ es[Len(es)]

\* errorsutil.NewAggregate(errs): nil when every element is nil
NewAggregate(es) == \E k \in DOMAIN es : es[k]

\* mutant: the error of c.Run is logged but the process exits normally
ExitStatus_Zero(r) == 0

\* main(): err := c.Run(os.Args); if err != nil { os.Exit(1) }
ExitStatus(r) == IF r = "nil" THEN 0 ELSE 1

Terminated == ret # "running"

\* --------------------------------------------------------------- validation
ValidListStrategy(s) == s \in {"envvar", "volume-mounts", "cdi-annotations"}

\* mutant: the device-id-strategy is not validated
validateFlags_NoIDCheck(cfg) ==
  IF ~ValidListStrategy(cfg.listStrategy) THEN "invalid --device-list-strategy option"
  ELSE "nil"

validateFlags(cfg) ==
  IF ~ValidListStrategy(cfg.listStrategy) THEN "invalid --device-list-strategy option"
  ELSE IF cfg.idStrategy # DeviceIDStrategyUUID /\ cfg.idStrategy # DeviceIDStrategyIndex
       THEN "invalid --device-id-strategy option"
       ELSE "nil"

loadConfig(raw) ==
  IF ~raw.newConfigOK THEN "unable to finalize config"
  ELSE IF validateFlags(raw) # "nil" THEN "unable to validate flags"
       ELSE "nil"

\* -------------------------------------------------------------------- Init
Init ==
  /\ pc = "entry"
  /\ restarting = FALSE
  /\ restartTimeout = 0
  /\ timerSpent = FALSE
  /\ plugins = <<>>
  /\ config = NoConfig
  /\ built = <<>>
  /\ i = 0
  /\ started = 0
  /\ errs = <<>>
  /\ ret = "running"
  /\ pass = 0
  /\ live = {}
  /\ unstopped = {}
  /\ lastEvent = "none"
  /\ passStarts = 0
  /\ passTimers = 0
  /\ degraded = FALSE
  /\ atSignal = <<0, 0>>
  /\ timers = {}
  /\ firedTimer = 0
  /\ lastFs = NoFs

\* ----------------------------------------------------------------- actions
\* start(), up to the restart label: the FS watcher is created or start returns
Entry ==
  /\ pc = "entry"
  /\ \E watcherOK \in BOOLEAN :
       IF watcherOK
       THEN /\ pc' = "restart"
            /\ ret' = ret
       ELSE /\ pc' = "done"
            /\ ret' = "failed to create FS watcher"
  /\ UNCHANGED <<restarting, restartTimeout, timerSpent, plugins, config, built, i, started, errs>>
  /\ UNCHANGED histVars

\* mutant: the restart label goes straight to startPlugins
RestartLabel_NoStop ==
  /\ pc = "restart"
  /\ pass < MaxPasses
  /\ pass' = pass + 1
  /\ passStarts' = 0
  /\ passTimers' = 0
  /\ pc' = "load"
  /\ UNCHANGED <<i, errs>>
  /\ lastFs' = NoFs
  /\ UNCHANGED <<restarting, restartTimeout, timerSpent, plugins, config, built, started, ret,
                 live, unstopped, lastEvent, degraded, atSignal, timers, firedTimer>>

\* restart: if restarting { stopPlugins(plugins) ... }
RestartLabel ==
  /\ pc = "restart"
  /\ pass < MaxPasses
  /\ pass' = pass + 1
  /\ passStarts' = 0
  /\ passTimers' = 0
  /\ IF restarting
     THEN /\ pc' = "stopPrev"
          /\ i' = 1
          /\ errs' = <<>>
     ELSE /\ pc' = "load"
          /\ UNCHANGED <<i, errs>>
  /\ lastFs' = NoFs
  /\ UNCHANGED <<restarting, restartTimeout, timerSpent, plugins, config, built, started, ret,
                 live, unstopped, lastEvent, degraded, atSignal, timers, firedTimer>>

\* one iteration of the loop of stopPlugins: err := p.Stop(); errs = append(errs, err)
StopOne ==
  /\ pc \in {"stopPrev", "stopExit"}
  /\ i <= Len(plugins)
  /\ \E err \in BOOLEAN :
       /\ plugins' = [plugins EXCEPT ![i].stops = @ + 1, ![i].stopErr = err]
       /\ errs' = Append(errs, err)
       /\ live' = IF err THEN live ELSE live \ {Id(plugins[i])}
  /\ unstopped' = unstopped \ {Id(plugins[i])}
  /\ i' = i + 1
  /\ UNCHANGED <<pc, restarting, restartTimeout, timerSpent, config, built, started, ret,
                 pass, lastEvent, passStarts, passTimers, degraded, atSignal, timers, firedTimer, lastFs>>

\* mutant: the error of stopPlugins is dropped at the restart label
StopPrevReturn_Ignore ==
  /\ pc = "stopPrev"
  /\ i > Len(plugins)
  /\ pc' = "load"
  /\ ret' = ret
  /\ UNCHANGED <<restarting, restartTimeout, timerSpent, plugins, config, built, i, started, errs>>
  /\ UNCHANGED histVars

\* mutant: a stop error at the restart label jumps to the exit label
StopPrevReturn_GotoExit ==
  /\ pc = "stopPrev"
  /\ i > Len(plugins)
  /\ IF NewAggregate(errs)
     THEN /\ pc' = "stopExit"
          /\ i' = 1
          /\ errs' = <<>>
     ELSE /\ pc' = "load"
          /\ UNCHANGED <<i, errs>>
  /\ UNCHANGED <<restarting, restartTimeout, timerSpent, plugins, config, built, started, ret>>
  /\ UNCHANGED histVars

\* stopPlugins returned to the restart label
StopPrevReturn ==
  /\ pc = "stopPrev"
  /\ i > Len(plugins)
  /\ IF NewAggregate(errs)
     THEN /\ pc' = "done"
          /\ ret' = "error stopping plugins from previous run"
     ELSE /\ pc' = "load"
          /\ ret' = ret
  /\ UNCHANGED <<restarting, restartTimeout, timerSpent, plugins, config, built, i, started, errs>>
  /\ UNCHANGED histVars

\* start() after startPlugins returned (nil, false, err)
StartPluginsError ==
  /\ pc' = "done"
  /\ ret' = "error starting plugins"
  /\ plugins' = <<>>
  /\ UNCHANGED <<restarting, restartTimeout, timerSpent, built, i, started, errs>>
  /\ UNCHANGED histVars

\* mutant: the error of loadConfig is not checked
LoadConfig_IgnoreError ==
  /\ pc = "load"
  /\ \E raw \in RawConfigs :
       /\ config' = raw
       /\ pc' = "build"
       /\ UNCHANGED <<restarting, restartTimeout, timerSpent, plugins, built, i, started, errs, ret>>
       /\ UNCHANGED histVars

\* startPlugins: loadConfig and disableResourceRenamingInConfig
LoadConfig ==
  /\ pc = "load"
  /\ \E raw \in RawConfigs :
       /\ IF loadConfig(raw) # "nil"
          THEN /\ config' = raw
               /\ StartPluginsError
          ELSE /\ config' = [raw EXCEPT !.sharing = disableResourceRenamingInConfig(@)]
               /\ pc' = "build"
               /\ UNCHANGED <<restarting, restartTimeout, timerSpent, plugins, built, i, started, errs, ret>>
               /\ UNCHANGED histVars

\* mutant: the plugins of the previous pass are started again instead of a fresh set
BuildPlugins_Reuse ==
  /\ pc = "build"
  /\ \/ /\ StartPluginsError
        /\ UNCHANGED config
     \/ \E s \in PluginSets :
          /\ built' = IF restarting THEN plugins ELSE NewPlugins(pass, s)
          /\ unstopped' = unstopped \cup {Id(built'[k]) : k \in DOMAIN built'}
          /\ i' = 1
          /\ started' = 0
          /\ pc' = "startLoop"
          /\ UNCHANGED <<restarting, restartTimeout, timerSpent, plugins, config, errs, ret>>
          /\ UNCHANGED <<pass, live, lastEvent, passStarts, passTimers, degraded, atSignal,
                         timers, firedTimer, lastFs>>

\* startPlugins: device config, default resources, plugin manager, GetPlugins
BuildPlugins ==
  /\ pc = "build"
  /\ \/ /\ StartPluginsError
        /\ UNCHANGED config
     \/ \E s \in PluginSets :
          /\ built' = NewPlugins(pass, s)
          /\ unstopped' = unstopped \cup {Id(built'[k]) : k \in DOMAIN s}
          /\ i' = 1
          /\ started' = 0
          /\ pc' = "startLoop"
          /\ UNCHANGED <<restarting, restartTimeout, timerSpent, plugins, config, errs, ret>>
          /\ UNCHANGED <<pass, live, lastEvent, passStarts, passTimers, degraded, atSignal,
                         timers, firedTimer, lastFs>>

\* mutant: a failed Start arms no retry timer
PassDone_NoTimer(ps, restartPlugins) ==
  /\ plugins' = ps
  /\ UNCHANGED <<restartTimeout, timerSpent, passTimers, timers>>
  /\ restarting' = TRUE
  /\ degraded' = restartPlugins
  /\ config' = NoConfig
  /\ pc' = "wait"

\* start() after startPlugins returned (ps, restartPlugins, nil)
PassDone(ps, restartPlugins) ==
  /\ plugins' = ps
  /\ IF restartPlugins
     THEN /\ restartTimeout' = pass
          /\ timerSpent' = FALSE
          /\ passTimers' = passTimers + 1
          /\ timers' = timers \cup {pass}
     ELSE UNCHANGED <<restartTimeout, timerSpent, passTimers, timers>>
  /\ restarting' = TRUE
  /\ degraded' = restartPlugins
  /\ config' = NoConfig
  /\ pc' = "wait"

\* the range loop of startPlugins: a plugin without devices is skipped
StartSkip ==
  /\ pc = "startLoop"
  /\ i <= Len(built)
  /\ built[i].devices = 0
  /\ i' = i + 1
  /\ UNCHANGED <<pc, restarting, restartTimeout, timerSpent, plugins, config, built, started, errs, ret>>
  /\ UNCHANGED histVars

\* p.Start() returned nil
StartOK ==
  /\ pc = "startLoop"
  /\ i <= Len(built)
  /\ built[i].devices # 0
  /\ built' = [built EXCEPT ![i].starts = @ + 1, ![i].status = "started"]
  /\ live' = live \cup {Id(built[i])}
  /\ started' = started + 1
  /\ passStarts' = passStarts + 1
  /\ i' = i + 1
  /\ UNCHANGED <<pc, restarting, restartTimeout, timerSpent, plugins, config, errs, ret,
                 pass, unstopped, lastEvent, passTimers, degraded, atSignal, timers, firedTimer, lastFs>>

\* mutant: a failed Start does not leave the loop
StartFail_Continue ==
  /\ pc = "startLoop"
  /\ i <= Len(built)
  /\ built[i].devices # 0
  /\ built' = [built EXCEPT ![i].starts = @ + 1, ![i].status = "failed"]
  /\ passStarts' = passStarts + 1
  /\ i' = i + 1
  /\ UNCHANGED <<pc, restarting, restartTimeout, timerSpent, plugins, config, started, errs, ret,
                 pass, live, unstopped, lastEvent, passTimers, degraded, atSignal, timers, firedTimer, lastFs>>

\* mutant: only the plugins tried so far are returned
StartFail_OnlyTried ==
  /\ pc = "startLoop"
  /\ i <= Len(built)
  /\ built[i].devices # 0
  /\ built' = [built EXCEPT ![i].starts = @ + 1, ![i].status = "failed"]
  /\ passStarts' = passStarts + 1
  /\ PassDone(SubSeq(built', 1, i), TRUE)
  /\ UNCHANGED <<i, started, errs, ret, pass, live, unstopped, lastEvent, atSignal, firedTimer, lastFs>>

\* p.Start() returned an error: return plugins, true, nil
StartFail ==
  /\ pc = "startLoop"
  /\ i <= Len(built)
  /\ built[i].devices # 0
  /\ built' = [built EXCEPT ![i].starts = @ + 1, ![i].status = "failed"]
  /\ passStarts' = passStarts + 1
  /\ PassDone(built', TRUE)
  /\ UNCHANGED <<i, started, errs, ret, pass, live, unstopped, lastEvent, atSignal, firedTimer, lastFs>>

\* mutant: a pass that started nothing is reported as failed
StartLoopEnd_ZeroDegraded ==
  /\ pc = "startLoop"
  /\ i > Len(built)
  /\ PassDone(built, started = 0)
  /\ UNCHANGED <<built, i, started, errs, ret, pass, live, unstopped, lastEvent, passStarts, atSignal,
                 firedTimer, lastFs>>

\* the loop ended: return plugins, false, nil
StartLoopEnd ==
  /\ pc = "startLoop"
  /\ i > Len(built)
  /\ PassDone(built, FALSE)
  /\ UNCHANGED <<built, i, started, errs, ret, pass, live, unstopped, lastEvent, passStarts, atSignal,
                 firedTimer, lastFs>>

\* mutant: every timer sends on one shared channel, so a superseded timer is received too
TimerFire_Any ==
  /\ pc = "wait"
  /\ restartTimeout # 0
  /\ \E t \in timers :
       /\ timers' = timers \ {t}
       /\ firedTimer' = t
       /\ timerSpent' = (timerSpent \/ t = restartTimeout)
  /\ lastEvent' = "timer"
  /\ lastFs' = NoFs
  /\ pc' = "restart"
  /\ UNCHANGED <<restarting, restartTimeout, plugins, config, built, i, started, errs, ret,
                 pass, live, unstopped, passStarts, passTimers, degraded, atSignal>>

\* case <-restartTimeout: goto restart
TimerFire ==
  /\ pc = "wait"
  /\ restartTimeout # 0
  /\ ~timerSpent
  /\ \E t \in timers :
       /\ t = restartTimeout
       /\ timers' = timers \ {t}
       /\ firedTimer' = t
  /\ timerSpent' = TRUE
  /\ lastEvent' = "timer"
  /\ lastFs' = NoFs
  /\ pc' = "restart"
  /\ UNCHANGED <<restarting, restartTimeout, plugins, config, built, i, started, errs, ret,
                 pass, live, unstopped, passStarts, passTimers, degraded, atSignal>>

\* mutant: the operation of the event is not looked at
FsEvent_AnyOp ==
  /\ pc = "wait"
  /\ \E name \in FsNames, op \in FsOps :
       /\ lastFs' = [name |-> name, op |-> op]
       /\ IF name = KubeletSocket
          THEN /\ pc' = "restart"
               /\ lastEvent' = "fsCreate"
          ELSE /\ pc' = pc
               /\ lastEvent' = "fsOther"
  /\ UNCHANGED progVars
  /\ firedTimer' = 0
  /\ UNCHANGED <<pass, live, unstopped, passStarts, passTimers, degraded, atSignal, timers>>

\* case event := <-watcher.Events
FsEvent ==
  /\ pc = "wait"
  /\ \E name \in FsNames, op \in FsOps :
       /\ lastFs' = [name |-> name, op |-> op]
       /\ IF name = KubeletSocket /\ "Create" \in op
          THEN /\ pc' = "restart"
               /\ lastEvent' = "fsCreate"
          ELSE /\ pc' = pc
               /\ lastEvent' = "fsOther"
  /\ UNCHANGED progVars
  /\ firedTimer' = 0
  /\ UNCHANGED <<pass, live, unstopped, passStarts, passTimers, degraded, atSignal, timers>>

\* case err := <-watcher.Errors
FsError ==
  /\ pc = "wait"
  /\ lastEvent' = "fsError"
  /\ lastFs' = NoFs
  /\ UNCHANGED pc
  /\ UNCHANGED progVars
  /\ firedTimer' = 0
  /\ UNCHANGED <<pass, live, unstopped, passStarts, passTimers, degraded, atSignal, timers>>

Running(ps) == {k \in DOMAIN ps : Id(ps[k]) \in live}

\* mutant: SIGQUIT is handled like SIGHUP
Signal_QuitRestarts ==
  /\ pc = "wait"
  /\ \E s \in Signals :
       /\ lastEvent' = s
       /\ IF s \in {"SIGHUP", "SIGQUIT"}
          THEN /\ pc' = "restart"
               /\ UNCHANGED <<i, errs, atSignal>>
          ELSE /\ pc' = "stopExit"
               /\ i' = 1
               /\ errs' = <<>>
               /\ atSignal' = <<Cardinality(Running(plugins)), Len(plugins)>>
  /\ lastFs' = NoFs
  /\ UNCHANGED <<restarting, restartTimeout, timerSpent, plugins, config, built, started, ret,
                 pass, live, unstopped, passStarts, passTimers, degraded, timers>>
  /\ firedTimer' = 0

\* case s := <-sigs
Signal ==
  /\ pc = "wait"
  /\ \E s \in Signals :
       /\ lastEvent' = s
       /\ IF s = "SIGHUP"
          THEN /\ pc' = "restart"
               /\ UNCHANGED <<i, errs, atSignal>>
          ELSE /\ pc' = "stopExit"
               /\ i' = 1
               /\ errs' = <<>>
               /\ atSignal' = <<Cardinality(Running(plugins)), Len(plugins)>>
  /\ lastFs' = NoFs
  /\ UNCHANGED <<restarting, restartTimeout, timerSpent, plugins, config, built, started, ret,
                 pass, live, unstopped, passStarts, passTimers, degraded, timers>>
  /\ firedTimer' = 0

\* mutant: stopPlugins returns at the first Stop error
StopExitReturn_Early ==
  /\ pc = "stopExit"
  /\ i > Len(plugins) \/ NewAggregate(errs)
  /\ ret' = IF NewAggregate(errs) THEN "error stopping plugins" ELSE "nil"
  /\ pc' = "done"
  /\ UNCHANGED <<restarting, restartTimeout, timerSpent, plugins, config, built, i, started, errs>>
  /\ UNCHANGED histVars

\* exit: stopPlugins returned
StopExitReturn ==
  /\ pc = "stopExit"
  /\ i > Len(plugins)
  /\ ret' = IF NewAggregate(errs) THEN "error stopping plugins" ELSE "nil"
  /\ pc' = "done"
  /\ UNCHANGED <<restarting, restartTimeout, timerSpent, plugins, config, built, i, started, errs>>
  /\ UNCHANGED histVars

Next ==
  \/ Entry
  \/ RestartLabel
  \/ StopOne
  \/ StopPrevReturn
  \/ LoadConfig
  \/ BuildPlugins
  \/ StartSkip
  \/ StartOK
  \/ StartFail
  \/ StartLoopEnd
  \/ TimerFire
  \/ FsEvent
  \/ FsError
  \/ Signal
  \/ StopExitReturn

Spec == Init /\ [][Next]_vars

\* ------------------------------------------- the normalizer on its own
\* Every sharing configuration of Sharings, in a configuration that loads,
\* is given to disableResourceRenamingInConfig, and the result once more.
NormInputs ==
  { [newConfigOK |-> TRUE, listStrategy |-> "envvar", idStrategy |-> DeviceIDStrategyUUID, sharing |-> sh] :
      sh \in Sharings }

InitNorm ==
  /\ pc = "normalize"
  /\ config \in NormInputs
  /\ restarting = FALSE
  /\ restartTimeout = 0
  /\ timerSpent = FALSE
  /\ plugins = <<>>
  /\ built = <<>>
  /\ i = 0
  /\ started = 0
  /\ errs = <<>>
  /\ ret = "running"
  /\ pass = 0
  /\ live = {}
  /\ unstopped = {}
  /\ lastEvent = "none"
  /\ passStarts = 0
  /\ passTimers = 0
  /\ degraded = FALSE
  /\ atSignal = <<0, 0>>
  /\ timers = {}
  /\ firedTimer = 0
  /\ lastFs = NoFs

NormFrame ==
  /\ UNCHANGED <<restarting, restartTimeout, timerSpent, plugins, built, i, started, errs, ret>>
  /\ UNCHANGED histVars

\* disableResourceRenamingInConfig(config) on a loaded configuration
Normalize ==
  /\ pc = "normalize"
  /\ config' = [config EXCEPT !.sharing = disableResourceRenamingInConfig(@)]
  /\ pc' = "normalized"
  /\ NormFrame

\* disableResourceRenamingInConfig(config) on its own output
Renormalize ==
  /\ pc = "normalized"
  /\ config' = [config EXCEPT !.sharing = disableResourceRenamingInConfig(@)]
  /\ pc' = "renormalized"
  /\ NormFrame

NextNorm ==
  \/ Normalize
  \/ Renormalize

SpecNorm == InitNorm /\ [][NextNorm]_vars

\* The armed timer expires after its delay, and start() goes on from the
\* restart label: the Stop and Start calls it makes return.
FairSpec ==
  /\ Spec
  /\ WF_vars(TimerFire)
  /\ WF_vars(RestartLabel)

TypeOK ==
  /\ pc \in {"entry", "restart", "stopPrev", "load", "build", "startLoop", "wait", "stopExit", "done",
             "normalize", "normalized", "renormalized"}
  /\ timers \subseteq 1..MaxPasses
  /\ firedTimer \in 0..MaxPasses
  /\ restarting \in BOOLEAN
  /\ restartTimeout \in 0..MaxPasses
  /\ pass \in 0..MaxPasses
  /\ Len(plugins) <= MaxPlugins
  /\ Len(built) <= MaxPlugins

\* ------------------------------------------------------------------ claims
InStartPlugins == pc \in {"load", "build", "startLoop"}
RestartEvents == {"timer", "fsCreate", "SIGHUP"}
TerminalSignals == {"SIGINT", "SIGTERM", "SIGQUIT"}
Failed(ps) == {k \in DOMAIN ps : ps[k].status = "failed"}
AllZero(ps) == \A k \in DOMAIN ps : ps[k].devices = 0

\* C1: in every pass but the first, whatever triggered it (socket Create,
\* SIGHUP or the retry timer), Stop has been called on every handle of the
\* previous pass before the configuration is loaded and before a handle of
\* the new pass is built or started; the first pass calls Stop on nothing.
C1_StopBeforeBuild ==
  /\ (InStartPlugins /\ pass > 1) =>
        /\ lastEvent \in RestartEvents
        /\ \A k \in DOMAIN plugins : plugins[k].gen < pass /\ plugins[k].stops >= 1
        /\ \A id \in unstopped : id[1] = pass
  /\ (pass <= 1 /\ lastEvent \notin TerminalSignals) =>
        /\ pc # "stopPrev"
        /\ \A k \in DOMAIN plugins : plugins[k].stops = 0
        /\ \A k \in DOMAIN built : built[k].stops = 0

C1_Witness ==
  /\ pc = "startLoop"
  /\ pass = 2
  /\ lastEvent = "fsCreate"
  /\ Len(plugins) = 2
  /\ \A k \in DOMAIN plugins : plugins[k].stops = 1
  /\ Len(built) > 0

\* C2 as claimed: a Stop error in a restart pass never terminates the
\* supervisor, which goes on to load the configuration and build.
C2_StopFailureNeverTerminates ==
  ret # "error stopping plugins from previous run"

\* C2 as amended: in a restart pass Stop is called on every handle of the
\* previous pass even after one of the calls failed; when a call failed the
\* supervisor then returns the error "error stopping plugins from previous
\* run" (exit status 1) with no configuration loaded and nothing built, and
\* the new pass is reached only when every Stop returned nil.
C2_StopFailureTerminates ==
  /\ (InStartPlugins /\ pass > 1) =>
        \A k \in DOMAIN plugins : plugins[k].stops = 1 /\ ~plugins[k].stopErr
  /\ (ret = "error stopping plugins from previous run") =>
        /\ pc = "done"
        /\ ExitStatus(ret) = 1
        /\ \A k \in DOMAIN plugins : plugins[k].stops = 1
        /\ \E k \in DOMAIN plugins : plugins[k].stopErr
        /\ config = NoConfig
        /\ \A k \in DOMAIN built : built[k].gen < pass
        /\ passStarts = 0

C2_Witness ==
  /\ ret = "error stopping plugins from previous run"
  /\ Len(plugins) = 2
  /\ plugins[1].stopErr
  /\ plugins[2].stops = 1
  /\ ~plugins[2].stopErr

\* C3: a pass in which a Start failed has exactly one failed handle and armed
\* exactly one retry timer, and in the pass run when a retry timer fires
\* every handle of the pass that armed it has had Stop called before a new
\* handle is built.
C3_DegradedRetry ==
  /\ (pc \in {"wait", "restart"}) =>
        /\ degraded <=> Cardinality(Failed(plugins)) = 1
        /\ Cardinality(Failed(plugins)) <= 1
        /\ degraded => (passTimers = 1 /\ restartTimeout = pass /\ (timerSpent => lastEvent = "timer"))
        /\ ~degraded => passTimers = 0
  /\ (lastEvent = "timer" /\ pc = "restart") => (restartTimeout # 0 /\ timerSpent)
  /\ (lastEvent = "timer" /\ InStartPlugins) =>
        /\ restartTimeout \in 1..(pass - 1)
        /\ \A id \in unstopped : id[1] # restartTimeout
        /\ \A k \in DOMAIN plugins : plugins[k].stops = 1

C3_Witness ==
  /\ pc = "startLoop"
  /\ lastEvent = "timer"
  /\ pass = 2
  /\ restartTimeout = 1
  /\ Len(plugins) = 2
  /\ plugins[1].status = "started"
  /\ plugins[2].status = "failed"
  /\ \A k \in DOMAIN plugins : plugins[k].stops = 1
  /\ Len(built) > 0

\* the Start calls made on ps form a prefix of the handles that have
\* devices, and nothing follows a failed one
StartedInOrder(ps) ==
  \A j \in DOMAIN ps : \A k \in DOMAIN ps :
     (j < k /\ ps[k].starts > 0) => (ps[j].devices = 0 \/ ps[j].status = "started")

\* C4: within a pass Start is attempted, in construction order, on the
\* handles that have devices and on no handle after the first failure, and
\* no handle of the pass has Stop called on it during that pass.
C4_StartOrder ==
  /\ pc = "startLoop" =>
        /\ StartedInOrder(built)
        /\ \A k \in DOMAIN built :
              /\ built[k].stops = 0
              /\ Id(built[k]) \in unstopped
              /\ (k >= i => built[k].starts = 0)
              /\ (k < i /\ built[k].devices # 0) => built[k].status = "started"
  /\ pc \in {"wait", "restart"} =>
        /\ StartedInOrder(plugins)
        /\ \A k \in DOMAIN plugins :
              /\ plugins[k].stops = 0
              /\ Id(plugins[k]) \in unstopped
              /\ (~degraded /\ plugins[k].devices # 0) => plugins[k].status = "started"

C4_Witness ==
  /\ pc = "wait"
  /\ Len(plugins) = 2
  /\ plugins[1].status = "failed"
  /\ plugins[2].devices # 0
  /\ plugins[2].starts = 0
  /\ plugins[1].stops = 0

\* C5: at most one handle per resource name is live, and while handles of
\* the current pass exist no handle of an earlier pass is live.
C5_OneLivePerResource ==
  /\ \A a \in live : \A b \in live : a[2] = b[2] => a = b
  /\ \A id \in live :
        \A k \in DOMAIN built : (built[k].gen = pass /\ built[k].name = id[2]) => id[1] = pass

C5_Witness ==
  /\ pass = 2
  /\ pc = "wait"
  /\ Len(plugins) = 2
  /\ \A k \in DOMAIN plugins : plugins[k].gen = 2 /\ Id(plugins[k]) \in live
  /\ Cardinality(live) = 2

\* start() went through the exit label and returned
ShutDown == pc = "done" /\ lastEvent \in TerminalSignals

\* C6 as claimed: a terminal signal received while N handles are running
\* leads to exactly N Stop calls.
C6_StopCallsEqualRunning ==
  ShutDown => Len(errs) = atSignal[1]

\* C6 as amended: a terminal signal received in the event wait leads to
\* exactly one Stop call on every handle of the owned plugin set, started or
\* not (the handles without devices, the one whose Start failed and those
\* after it included), so at least one per running handle, and a Stop call
\* that returns an error does not prevent the remaining ones.
C6_StopCallsEqualOwned ==
  /\ ShutDown =>
        /\ Len(errs) = Len(plugins)
        /\ Len(plugins) = atSignal[2]
        /\ atSignal[1] <= Len(errs)
        /\ \A k \in DOMAIN plugins : plugins[k].stops = 1 /\ plugins[k].stopErr = errs[k]
        /\ unstopped = {}
  /\ (pc = "stopExit") =>
        /\ Len(errs) = i - 1
        /\ \A k \in DOMAIN plugins : plugins[k].stops = (IF k < i THEN 1 ELSE 0)

C6_Witness ==
  /\ ShutDown
  /\ atSignal = <<1, 2>>
  /\ Len(errs) = 2
  /\ errs[1]
  /\ plugins[2].stops = 1

\* C7 as claimed: a shutdown by a terminal signal exits with status 0 even
\* when Stop calls returned errors.
C7_ShutdownExitsZero ==
  ShutDown => ExitStatus(ret) = 0

\* C7 as amended: a shutdown by a terminal signal exits with status 0 when
\* every Stop call of the shutdown returned nil, and with status 1 (the
\* error "error stopping plugins") when at least one returned an error.
C7_ShutdownExitStatus ==
  ShutDown =>
     /\ ret \in {"nil", "error stopping plugins"}
     /\ (ExitStatus(ret) = 0) <=> (\A k \in DOMAIN plugins : ~plugins[k].stopErr)
     /\ (ExitStatus(ret) = 1) <=> (\E k \in DOMAIN plugins : plugins[k].stopErr)

C7_Witness ==
  /\ ShutDown
  /\ lastEvent = "SIGTERM"
  /\ Len(plugins) = 2
  /\ plugins[1].stopErr
  /\ ~plugins[2].stopErr
  /\ ExitStatus(ret) = 1

\* C8: when loading the configuration or building the plugin set fails, in
\* the first pass or a later one, start returns an error (exit status 1): the
\* pass has called no Start and armed no timer, no plugin set is kept and the
\* supervisor is not waiting for events; a configuration that fails to load
\* never reaches the build.
C8_FatalLoadOrBuild ==
  /\ pc \in {"build", "startLoop"} => loadConfig(config) = "nil"
  /\ (pc = "done" /\ config # NoConfig) => ret = "error starting plugins"
  /\ (ret = "error starting plugins") =>
        /\ pc = "done"
        /\ ExitStatus(ret) = 1
        /\ passStarts = 0
        /\ passTimers = 0
        /\ plugins = <<>>
        /\ \A k \in DOMAIN built : built[k].gen < pass

C8_Witness ==
  /\ ret = "error starting plugins"
  /\ pass = 2
  /\ loadConfig(config) = "unable to validate flags"
  /\ Len(built) = 2

\* C9: a handle without devices is never started, and a pass whose handles
\* all have no devices (or that built none) makes no Start call, is not
\* degraded, arms no timer and leaves the supervisor running in the event
\* wait.
C9_ZeroDevices ==
  /\ \A k \in DOMAIN built : built[k].devices = 0 => (built[k].starts = 0 /\ built[k].status = "built")
  /\ \A k \in DOMAIN plugins : plugins[k].devices = 0 => (plugins[k].starts = 0 /\ plugins[k].status = "built")
  /\ (pc = "startLoop" /\ AllZero(built)) => (passStarts = 0 /\ started = 0 /\ ret = "running")
  /\ (pc \in {"wait", "restart"} /\ AllZero(plugins)) =>
        /\ passStarts = 0
        /\ ~degraded
        /\ passTimers = 0
        /\ ret = "running"
        /\ live = {}

C9_Witness ==
  /\ pc = "wait"
  /\ pass = 2
  /\ Len(plugins) = 2
  /\ AllZero(plugins)
  /\ lastEvent = "fsOther"

\* C10: Start is called at most once on any handle, never on a handle that
\* is already started and never on a handle of an earlier pass.
C10_StartAtMostOnce ==
  /\ \A k \in DOMAIN built : built[k].starts <= 1 /\ (built[k].starts = 1 <=> built[k].status # "built")
  /\ \A k \in DOMAIN plugins : plugins[k].starts <= 1 /\ (plugins[k].starts = 1 <=> plugins[k].status # "built")
  /\ pc = "startLoop" =>
        /\ \A k \in DOMAIN built : built[k].gen = pass
        /\ passStarts = Cardinality({k \in DOMAIN built : built[k].starts = 1})
        /\ \A id \in live : id[1] = pass
  /\ \A id \in live : \E k \in DOMAIN built : Id(built[k]) = id /\ built[k].status = "started"

C10_Witness ==
  /\ pass = 3
  /\ pc = "wait"
  /\ Len(plugins) = 2
  /\ \A k \in DOMAIN plugins : plugins[k].status = "started" /\ plugins[k].starts = 1 /\ plugins[k].gen = 3
\* C11: in the event wait SIGHUP sends start() back to the restart label,
\* where a new pass begins, and start() has not returned; SIGINT, SIGTERM
\* and SIGQUIT send it to the exit label, after which no pass is run, nothing
\* is built and nothing is started.
C11_SignalDispatch ==
  [][ /\ (pc = "wait" /\ lastEvent' = "SIGHUP") =>
            (pc' = "restart" /\ ret' = "running" /\ plugins' = plugins)
      /\ (pc = "restart" /\ lastEvent = "SIGHUP") =>
            (pass' = pass + 1 /\ pc' = "stopPrev" /\ ret' = "running")
      /\ (pc = "wait" /\ lastEvent' \in TerminalSignals) => pc' = "stopExit"
      /\ (pc \in {"stopExit", "done"}) =>
            /\ pc' \in {"stopExit", "done"}
            /\ pass' = pass
            /\ built' = built
            /\ passStarts' = passStarts
      /\ (lastEvent \in TerminalSignals) => lastEvent' = lastEvent
    ]_vars

C11_Witness ==
  /\ lastEvent = "SIGHUP"
  /\ pc = "startLoop"
  /\ pass = 2
  /\ ret = "running"
  /\ Len(plugins) = 2
  /\ Len(built) = 2
\* the policy-determined default rename of an entry
PolicyRename(rbd, n) == IF rbd THEN DefaultSharedRename(n) ELSE NoRename

C13_NormalizationIdempotent ==
  [][ (pc = "normalized") =>
        /\ config'.sharing.resources = config.sharing.resources
        /\ config'.sharing.renameByDefault = config.sharing.renameByDefault
        /\ config'.sharing.gpus = config.sharing.gpus
        /\ config'.sharing.migs = config.sharing.migs
        /\ ~config'.sharing.warnRename
        /\ ~config'.sharing.warnDevices
        /\ ~config'.sharing.warnResources
    ]_vars

C13_Witness ==
  /\ pc = "renormalized"
  /\ Len(config.sharing.resources) = 2
  /\ config.sharing.renameByDefault
  /\ config.sharing.resources[1].name # config.sharing.resources[2].name
  /\ ~config.sharing.warnRename
  /\ ~config.sharing.warnDevices
\* C14: loading a configuration whose device-id-strategy is neither uuid nor
\* index, or whose device-list-strategy is outside its set, fails with an
\* invalid-option error; validation succeeds only when both are members of
\* their sets, and after a failed validation the pass builds and starts
\* nothing.
C14_EnumValidation ==
  /\ \A raw \in RawConfigs :
        /\ (validateFlags(raw) = "nil") <=>
              (raw.idStrategy \in {"uuid", "index"} /\ ValidListStrategy(raw.listStrategy))
        /\ (raw.idStrategy \notin {"uuid", "index"} /\ ValidListStrategy(raw.listStrategy)) =>
              validateFlags(raw) = "invalid --device-id-strategy option"
        /\ ~ValidListStrategy(raw.listStrategy) =>
              validateFlags(raw) = "invalid --device-list-strategy option"
  /\ (pc \in {"build", "startLoop"}) =>
        (config.idStrategy \in {"uuid", "index"} /\ ValidListStrategy(config.listStrategy))
  /\ (config # NoConfig /\ ~(config.idStrategy \in {"uuid", "index"} /\ ValidListStrategy(config.listStrategy))) =>
        /\ pc = "done"
        /\ ret = "error starting plugins"
        /\ passStarts = 0
        /\ plugins = <<>>
        /\ \A k \in DOMAIN built : built[k].gen < pass

C14_Witness ==
  /\ pc = "done"
  /\ pass = 2
  /\ config.newConfigOK
  /\ ValidListStrategy(config.listStrategy)
  /\ config.idStrategy = "bogus"
  /\ ret = "error starting plugins"
  /\ Len(built) = 2
\* C15: the retry timer starts a pass only when the most recent pass was
\* degraded; after a non-degraded pass no pass is triggered by the timer.
C15_TimerOnlyAfterDegraded ==
  (lastEvent = "timer" /\ pc = "restart") => degraded

\* C16: the select statement listens to the timer armed last only: a timer
\* that a later degraded pass replaced before it fired never triggers a pass,
\* and a timer triggers at most one pass.
C16_OneTimerPending ==
  /\ (restartTimeout # 0 /\ ~timerSpent) <=> (restartTimeout \in timers)
  /\ \A t \in timers : t <= restartTimeout
  /\ (lastEvent = "timer" /\ pc \in {"restart", "stopPrev", "load", "build", "startLoop"}) =>
        /\ firedTimer = restartTimeout
        /\ timerSpent
  /\ firedTimer # 0 => firedTimer \notin timers
  /\ passTimers <= 1

C16_Witness ==
  /\ pc = "restart"
  /\ lastEvent = "timer"
  /\ pass = 2
  /\ firedTimer = 2
  /\ timers = {1}
  /\ degraded
Ids(ps) == {Id(ps[k]) : k \in DOMAIN ps}

\* C17 as claimed: after a degraded pass the owned set is the handles
\* started so far plus the handle whose Start failed.
C17_OwnedIsStartedPlusFailed ==
  (pc \in {"wait", "restart"} /\ degraded) =>
     \A k \in DOMAIN plugins : plugins[k].status \in {"started", "failed"}

\* C17 as amended: after a degraded pass the owned set is every handle the
\* pass built: the handles started so far, the handle whose Start failed,
\* the handles skipped for having no devices and the handles after the
\* failed one, on which Start was never called; all of them receive a Stop
\* call in the stop step of the next pass or at exit.
C17_OwnedIsAllBuilt ==
  /\ (pc \in {"wait", "restart"} /\ degraded) =>
        /\ plugins = built
        /\ Ids(plugins) = unstopped
        /\ \E f \in DOMAIN plugins :
              /\ plugins[f].status = "failed"
              /\ \A k \in DOMAIN plugins :
                    /\ k < f => plugins[k].status = (IF plugins[k].devices = 0 THEN "built" ELSE "started")
                    /\ k > f => (plugins[k].status = "built" /\ plugins[k].starts = 0)
  /\ (InStartPlugins /\ pass > 1) =>
        /\ Len(plugins) = Cardinality(Ids(plugins))
        /\ \A k \in DOMAIN plugins : plugins[k].stops = 1
        /\ \A id \in unstopped : id[1] = pass /\ id \in Ids(built)
  /\ ShutDown =>
        /\ \A k \in DOMAIN plugins : plugins[k].stops = 1
        /\ unstopped = {}

C17_Witness ==
  /\ pc = "load"
  /\ pass = 2
  /\ Len(plugins) = 2
  /\ plugins[1].status = "failed"
  /\ plugins[2].status = "built"
  /\ plugins[2].devices # 0
  /\ plugins[1].stops = 1
  /\ plugins[2].stops = 1

\* the watcher event just received is a Create of the kubelet socket
IsSocketCreate(ev) == ev.name = KubeletSocket /\ "Create" \in ev.op

\* C18: in the event wait a watcher error, and a watcher event that is not a
\* Create of the kubelet socket, leave start() in the event wait and change
\* nothing: no Stop, no Start, the same owned set, restarting flag and timer.
C18_OtherFsEventsChangeNothing ==
  [][ (/\ pc = "wait"
       /\ \/ lastEvent' = "fsError"
          \/ (lastEvent' \in {"fsOther", "fsCreate"} /\ lastFs' # NoFs /\ ~IsSocketCreate(lastFs')))
      => /\ pc' = "wait"
         /\ UNCHANGED progVars
         /\ UNCHANGED <<pass, live, unstopped, passStarts, passTimers, degraded, timers>>
    ]_vars

C18_Witness ==
  /\ pc = "wait"
  /\ lastEvent = "fsOther"
  /\ lastFs = [name |-> KubeletSocket, op |-> {"Write", "Remove"}]
  /\ Len(plugins) = 2
  /\ restartTimeout # 0
  /\ ~timerSpent
  /\ restarting

\* C20: Stop is called at most once on any handle, and when start() has
\* returned, by whatever path, Stop has been called exactly once on every
\* handle that was built, hence on every handle whose Start was called.
C20_StopExactlyOnce ==
  /\ \A k \in DOMAIN plugins :
        /\ plugins[k].stops <= 1
        /\ (plugins[k].stops = 0) <=> (Id(plugins[k]) \in unstopped)
  /\ \A id \in unstopped : id \in Ids(plugins) \/ (pc = "startLoop" /\ id \in Ids(built))
  /\ \A id \in live : id \in unstopped \/ (\E k \in DOMAIN plugins : Id(plugins[k]) = id /\ plugins[k].stopErr)
  /\ Terminated =>
        /\ unstopped = {}
        /\ \A k \in DOMAIN plugins : plugins[k].stops = 1

C20_Witness ==
  /\ Terminated
  /\ ret = "error starting plugins"
  /\ pass = 3
  /\ lastEvent = "timer"
  /\ Len(built) = 2
  /\ built[1].status = "started"
  /\ built[2].status = "failed"
  /\ unstopped = {}
\* a degraded pass has ended and a further pass is within the explored bound
DegradedWait == pc = "wait" /\ degraded /\ pass < MaxPasses

\* C19: a failed Start does not end start(): the pass ends in the event wait
\* with the retry timer armed, and from there a new pass eventually begins
\* (its stop step is reached) unless start() goes to the exit label or
\* returns first.
C19_StartFailureRetried ==
  /\ []((\E k \in DOMAIN built : built[k].status = "failed" /\ built[k].gen = pass) =>
           (ret \notin {"error starting plugins", "failed to create FS watcher"} /\ degraded))
  /\ []((pc = "wait" /\ degraded) =>
           (ret = "running" /\ restartTimeout = pass /\ ~timerSpent /\ pass \in timers))
  /\ DegradedWait ~> (pc \in {"stopPrev", "stopExit", "done"})

C19_Witness ==
  /\ pc = "stopPrev"
  /\ lastEvent = "timer"
  /\ firedTimer = 1
  /\ pass = 2
  /\ degraded
  /\ Len(plugins) = 2
  /\ plugins[2].status = "failed"
====
